---- MODULE Spec2Model ----
(***************************************************************************)
(* memLog[T] (src/mem_log.go): a bounded, mutex-protected log kept in a    *)
(* container/list.  The list is a sequence, head (oldest) first.  Every    *)
(* method is split into the steps a goroutine takes: Lock, each statement  *)
(* of the body, the deferred Unlock.  The goroutines calling the log are   *)
(* the Threads; what they call and with which arguments is chosen freely.  *)
(* Len, Append, Clear and SliceN all begin with m.locker.Lock(): which of   *)
(* them a goroutine waiting there has called, and with which argument, is  *)
(* invisible to the log until Lock returns, and is drawn when the body     *)
(* first uses it.                                                          *)
(* StringLog (src/string_log.go) is an io.Writer over such a log: a Go     *)
(* string or []byte is the sequence of its bytes.                          *)
(***************************************************************************)
EXTENDS Integers, Sequences, FiniteSets, TLC

\* ---------------------------------------------------------------- bounds
NThreads == 2
NItems == 2
MaxCap == 2
MaxCalls == 4
\* Calls issued in the behaviours checked for termination.
MaxFairCalls == 3
\* Calls of StringLog.Write, and the bytes handed to them in all.
MaxWrites == 2
MaxBytes == 3

\* ------------------------------------------------------------- constants
allElements == -1

Threads == 1..NThreads
\* Values of the element type T; Zero is T's zero value, an ordinary value.
Zero == 0
Items == 0..(NItems - 1)
\* Capacities handed to New: the positive ones and the degenerate ones.
Caps == (0 - 1)..MaxCap
\* Counts handed to SliceN: negative, zero, in range, beyond any length.
Counts == (0 - 2)..(MaxCap + 1)
\* Addresses of the arrays that back the slices made by toSlice; 0 is nil.
ArrIds == 1..NThreads
\* Bytes: carriage return, line feed, and one byte that is neither.
CR == 13
LF == 10
Letter == 120
Bytes == {Letter, CR, LF}
\* The cutset "\r\n" Write hands to strings.Trim.
CutSet == {CR, LF}

VARIABLES
    lst,        \* m.lst: the list's values, Front first
    max,        \* m.max
    locker,     \* m.locker: the goroutine holding the mutex, 0 when free
    panicked,   \* a goroutine panicked (the process is gone)
    pc,         \* per goroutine: the statement it is about to execute
    op,         \* per goroutine: the public method it is executing
    item,       \* Append's parameter
    arg,        \* SliceN's parameter as passed by the caller
    n,          \* SliceN's/toSlice's n (reassigned by the clamp); Write's result n
    len,        \* SliceN's local len
    idx,        \* toSlice's idx
    e,          \* toSlice's e: a position of lst, 0 for nil
    slice,      \* the array behind the slice being built / last returned
    ret,        \* Len's return value
    arr,        \* the arrays behind the slices, by address
    budget,     \* calls the callers may still issue
    completed,  \* history: items of the Appends that returned since the last Clear returned
    evicted,    \* history: items removed by Append since the last Clear returned
    cleared,    \* history: some Clear has returned
    p,          \* Write's parameter
    err,        \* Write's result err
    handed      \* history: the number of bytes handed to Write so far

vars == <<lst, max, locker, panicked, pc, op, item, arg, n, len, idx, e,
          slice, ret, arr, budget, completed, evicted, cleared, p, err, handed>>

locals == <<item, arg, n, len, idx, e, ret>>
history == <<completed, evicted, cleared>>
stream == <<p, err, handed>>

\* ------------------------------------------------------- container/list
ListLen(l) == Len(l)
\* Mutant of PushBack: the value is inserted at the Front.
PushFront(l, v) == <<v>> \o l
\* m.lst.PushBack(item)
PushBack(l, v) == Append(l, v)
\* Mutant of Front: the element at the other end.
FrontIsBack(l) == Len(l)
\* Front/Back as positions; 0 is the nil element of an empty list.
Front(l) == IF Len(l) = 0 THEN 0 ELSE 1
\* Mutant of Back: the element at the other end.
BackIsFront(l) == IF Len(l) = 0 THEN 0 ELSE 1
Back(l) == Len(l)
Prev(at) == IF at <= 1 THEN 0 ELSE at - 1
\* Mutant of Remove: unlinks the element at the Back instead.
RemoveBack(l, at) == SubSeq(l, 1, Len(l) - 1)
\* list.Remove(e) of the element at position at (nil dereference panics).
Remove(l, at) == [i \in 1..(Len(l) - 1) |-> IF i < at THEN l[i] ELSE l[i + 1]]
ListInit == << >>
\* Mutant of InitList: the elements stay linked.
InitKeeps(l) == l
\* m.lst.Init() on a list in use: it is empty afterwards.
InitList(l) == ListInit

\* ----------------------------------------------------------------- mutex
\* Mutant of CanLock: Lock never waits.
CanLockAlways(t) == TRUE
\* sync.Mutex.Lock succeeds only on a free mutex.
CanLock(t) == locker = 0

\* --------------------------------------------------------------- helpers
Min(a, b) == IF a <= b THEN a ELSE b
Max(a, b) == IF a >= b THEN a ELSE b
Range(s) == {s[i] : i \in 1..Len(s)}
Suffix(s, k) == SubSeq(s, Len(s) - k + 1, Len(s))
IsDistinct(s) == \A i, j \in 1..Len(s) : i # j => s[i] # s[j]

\* New(maxEntries), with callers that will issue at most `calls` calls.
Start(calls) ==
    /\ lst = ListInit
    /\ max \in Caps
    /\ locker = 0
    /\ panicked = FALSE
    /\ pc = [t \in Threads |-> "idle"]
    /\ op = [t \in Threads |-> "none"]
    /\ item = [t \in Threads |-> Zero]
    /\ arg = [t \in Threads |-> 0]
    /\ n = [t \in Threads |-> 0]
    /\ len = [t \in Threads |-> 0]
    /\ idx = [t \in Threads |-> 0]
    /\ e = [t \in Threads |-> 0]
    /\ slice = [t \in Threads |-> 0]
    /\ ret = [t \in Threads |-> 0]
    /\ arr = [a \in ArrIds |-> << >>]
    /\ budget = calls
    /\ completed = << >>
    /\ evicted = << >>
    /\ cleared = FALSE
    /\ p = [t \in Threads |-> << >>]
    /\ err = [t \in Threads |-> "none"]
    /\ handed = 0

Init == Start(MaxCalls)

\* ------------------------------------------------------------ the callers
\* A caller starts a call: the slice it held from its previous call is dropped.
Invoke(t, method, first) ==
    /\ ~panicked
    /\ pc[t] = "idle"
    /\ budget > 0
    /\ budget' = budget - 1
    /\ op' = [op EXCEPT ![t] = method]
    /\ pc' = [pc EXCEPT ![t] = first]
    /\ slice' = [slice EXCEPT ![t] = 0]
    /\ arr' = IF slice[t] = 0 THEN arr ELSE [arr EXCEPT ![slice[t]] = << >>]
    /\ UNCHANGED <<lst, max, locker, panicked, locals, history, stream>>

\* A call of Len, Append, Clear or SliceN: the goroutine is at m.locker.Lock().
CallLocking(t) == Invoke(t, "Locking", "Lock")

\* A call of Slice.
CallSlice(t) == Invoke(t, "Slice", "Slice")

\* A caller overwrites one position of the slice it was returned.
Overwrite(t) ==
    /\ ~panicked
    /\ pc[t] = "idle"
    /\ slice[t] # 0
    /\ budget > 0
    /\ budget' = budget - 1
    /\ \E i \in 1..Len(arr[slice[t]]), v \in Items :
         /\ arr[slice[t]][i] # v
         /\ arr' = [arr EXCEPT ![slice[t]][i] = v]
    /\ UNCHANGED <<lst, max, locker, panicked, pc, op, locals, slice, history, stream>>

\* ------------------------------------------------------- steps in common
\* m.locker.Lock(): the goroutine waits until the mutex is free.
Lock(t, method, next) ==
    /\ ~panicked
    /\ pc[t] = "Lock"
    /\ op[t] \in {"Locking", method}
    /\ CanLock(t)
    /\ locker' = t
    /\ op' = [op EXCEPT ![t] = method]
    /\ pc' = [pc EXCEPT ![t] = next]
    /\ UNCHANGED <<lst, max, panicked, len, idx, e, ret, slice, arr, budget, history, stream>>

\* defer m.locker.Unlock(), then the return to the caller.
Unlock(t, at) ==
    /\ ~panicked
    /\ pc[t] = at
    /\ locker' = 0
    /\ pc' = [pc EXCEPT ![t] = "idle"]
    /\ op' = [op EXCEPT ![t] = "none"]
    /\ item' = [item EXCEPT ![t] = Zero]
    /\ arg' = [arg EXCEPT ![t] = 0]
    /\ n' = [n EXCEPT ![t] = 0]
    /\ len' = [len EXCEPT ![t] = 0]
    /\ idx' = [idx EXCEPT ![t] = 0]
    /\ e' = [e EXCEPT ![t] = 0]
    /\ ret' = [ret EXCEPT ![t] = 0]
    /\ UNCHANGED <<lst, max, panicked, budget, stream>>

\* ---------------------------------------------------------------- Len
LenLock(t) ==
    /\ Lock(t, "Len", "Len_Return")
    /\ UNCHANGED <<item, arg, n>>

LenReturn(t) ==
    /\ ~panicked
    /\ pc[t] = "Len_Return"
    /\ ret' = [ret EXCEPT ![t] = ListLen(lst)]
    /\ pc' = [pc EXCEPT ![t] = "Len_Unlock"]
    /\ UNCHANGED <<lst, max, locker, panicked, op, item, arg, n, len, idx, e,
                   slice, arr, budget, history, stream>>

LenUnlock(t) ==
    /\ Unlock(t, "Len_Unlock")
    /\ UNCHANGED <<slice, arr, history>>

\* ------------------------------------------------------------- Append
\* The item is any value of T; it is drawn where the body is entered.
AppendLock(t) ==
    /\ Lock(t, "Append", "Append_PushBack")
    /\ \E v \in Items : item' = [item EXCEPT ![t] = v]
    /\ UNCHANGED <<arg, n>>

AppendPushBack(t) ==
    /\ ~panicked
    /\ pc[t] = "Append_PushBack"
    /\ lst' = PushBack(lst, item[t])
    /\ pc' = [pc EXCEPT ![t] = "Append_Check"]
    /\ UNCHANGED <<max, locker, panicked, op, locals, slice, arr, budget, history, stream>>

\* Mutants of OverMax: the comparison off by one, either way.
OverMaxEarly(l, m) == ListLen(l) >= m
OverMaxLate(l, m) == ListLen(l) > m + 1
\* Mutant of OverMax: a capacity that is not positive means no bound.
OverMaxPositive(l, m) == m > 0 /\ ListLen(l) > m
\* if m.lst.Len() > m.max
OverMax(l, m) == ListLen(l) > m

\* the if statement and its body, m.lst.Remove(m.lst.Front())
AppendCheck(t) ==
    /\ ~panicked
    /\ pc[t] = "Append_Check"
    /\ IF OverMax(lst, max)
         THEN IF Front(lst) = 0
                THEN /\ panicked' = TRUE
                     /\ UNCHANGED <<lst, evicted>>
                ELSE /\ lst' = Remove(lst, Front(lst))
                     /\ evicted' = Append(evicted, lst[Front(lst)])
                     /\ UNCHANGED panicked
         ELSE UNCHANGED <<lst, evicted, panicked>>
    /\ pc' = [pc EXCEPT ![t] = "Append_Unlock"]
    /\ UNCHANGED <<max, locker, op, locals, slice, arr, budget, completed, cleared, stream>>

AppendUnlock(t) ==
    /\ Unlock(t, "Append_Unlock")
    /\ completed' = Append(completed, item[t])
    /\ UNCHANGED <<slice, arr, evicted, cleared>>

\* -------------------------------------------------------------- Clear
ClearLock(t) ==
    /\ Lock(t, "Clear", "Clear_Init")
    /\ UNCHANGED <<item, arg, n>>

\* Mutant of ClearInit: the bound is reset along with the contents.
ClearInitDropsBound(t) ==
    /\ ~panicked
    /\ pc[t] = "Clear_Init"
    /\ lst' = InitList(lst)
    /\ max' = 0
    /\ pc' = [pc EXCEPT ![t] = "Clear_Unlock"]
    /\ UNCHANGED <<locker, panicked, op, locals, slice, arr, budget, history, stream>>

ClearInit(t) ==
    /\ ~panicked
    /\ pc[t] = "Clear_Init"
    /\ lst' = InitList(lst)
    /\ pc' = [pc EXCEPT ![t] = "Clear_Unlock"]
    /\ UNCHANGED <<max, locker, panicked, op, locals, slice, arr, budget, history, stream>>

ClearUnlock(t) ==
    /\ Unlock(t, "Clear_Unlock")
    /\ completed' = << >>
    /\ evicted' = << >>
    /\ cleared' = TRUE
    /\ UNCHANGED <<slice, arr>>

\* -------------------------------------------------------------- Slice
\* Mutant of Slice: it takes the mutex itself before it calls SliceN.
SliceLocking(t) ==
    /\ ~panicked
    /\ pc[t] = "Slice"
    /\ CanLock(t)
    /\ locker' = t
    /\ arg' = [arg EXCEPT ![t] = allElements]
    /\ n' = [n EXCEPT ![t] = allElements]
    /\ pc' = [pc EXCEPT ![t] = "Lock"]
    /\ UNCHANGED <<lst, max, panicked, op, item, len, idx, e, ret,
                   slice, arr, budget, history, stream>>

\* return m.SliceN(allElements): no lock is taken here.
Slice(t) ==
    /\ ~panicked
    /\ pc[t] = "Slice"
    /\ arg' = [arg EXCEPT ![t] = allElements]
    /\ n' = [n EXCEPT ![t] = allElements]
    /\ pc' = [pc EXCEPT ![t] = "Lock"]
    /\ UNCHANGED <<lst, max, locker, panicked, op, item, len, idx, e, ret,
                   slice, arr, budget, history, stream>>

\* ------------------------------------------------------------- SliceN
\* Mutant of SliceNLock: the body is entered without the mutex.
SliceNNoLock(t) ==
    /\ ~panicked
    /\ pc[t] = "Lock"
    /\ op[t] \in {"Locking", "Slice"}
    /\ op' = [op EXCEPT ![t] = IF op[t] = "Slice" THEN "Slice" ELSE "SliceN"]
    /\ pc' = [pc EXCEPT ![t] = "SliceN_Len"]
    /\ UNCHANGED <<lst, max, locker, panicked, locals, slice, arr, budget,
                   history, stream>>

\* Entered from Slice, the method stays Slice.
SliceNLock(t) ==
    /\ Lock(t, IF op[t] = "Slice" THEN "Slice" ELSE "SliceN", "SliceN_Len")
    /\ UNCHANGED <<item, arg, n>>

\* len := m.lst.Len()
SliceNLen(t) ==
    /\ ~panicked
    /\ pc[t] = "SliceN_Len"
    /\ len' = [len EXCEPT ![t] = ListLen(lst)]
    /\ pc' = [pc EXCEPT ![t] = "SliceN_Clamp"]
    /\ UNCHANGED <<lst, max, locker, panicked, op, item, arg, n, idx, e, ret,
                   slice, arr, budget, history, stream>>

\* Mutant of Clamp: a count beyond the length is not clamped.
ClampNoUpper(k, l) == IF k <= allElements THEN l ELSE k
\* if n <= allElements || n > len { n = len }
Clamp(k, l) == IF k <= allElements \/ k > l THEN l ELSE k

\* Called from Slice, n is allElements; called directly it is any count,
\* drawn here, where the body first reads it.
SliceNClamp(t) ==
    /\ ~panicked
    /\ pc[t] = "SliceN_Clamp"
    /\ \E k \in (IF op[t] = "Slice" THEN {n[t]} ELSE Counts) :
         /\ arg' = [arg EXCEPT ![t] = k]
         /\ n' = [n EXCEPT ![t] = Clamp(k, len[t])]
    /\ pc' = [pc EXCEPT ![t] = "toSlice_Make"]
    /\ UNCHANGED <<lst, max, locker, panicked, op, item, len, idx, e, ret,
                   slice, arr, budget, history, stream>>

\* ------------------------------------------------------------ toSlice
\* Mutant of NewArray: one buffer is reused for every result.
NewArrayShared(t) == 1
\* make([]T, n) returns an array no live slice refers to.
NewArray(t) == CHOOSE a \in ArrIds : \A u \in Threads : slice[u] # a

\* slice = make([]T, n); idx := n - 1; e := m.lst.Back()
toSliceMake(t) ==
    /\ ~panicked
    /\ pc[t] = "toSlice_Make"
    /\ IF n[t] < 0
         THEN /\ panicked' = TRUE
              /\ UNCHANGED <<slice, arr>>
         ELSE /\ slice' = [slice EXCEPT ![t] = NewArray(t)]
              /\ arr' = [arr EXCEPT ![NewArray(t)] = [i \in 1..n[t] |-> Zero]]
              /\ UNCHANGED panicked
    /\ idx' = [idx EXCEPT ![t] = n[t] - 1]
    /\ e' = [e EXCEPT ![t] = Back(lst)]
    /\ pc' = [pc EXCEPT ![t] = "toSlice_Loop"]
    /\ UNCHANGED <<lst, max, locker, op, item, arg, n, len, ret, budget, history, stream>>

\* the loop condition: e != nil && idx >= 0
LoopCond(t) == e[t] # 0 /\ idx[t] >= 0

\* Mutant of toSliceLoop: the element is unlinked once it is copied.
toSliceLoopDraining(t) ==
    /\ ~panicked
    /\ pc[t] = "toSlice_Loop"
    /\ LoopCond(t)
    /\ arr' = [arr EXCEPT ![slice[t]][idx[t] + 1] = lst[e[t]]]
    /\ lst' = Remove(lst, e[t])
    /\ idx' = [idx EXCEPT ![t] = idx[t] - 1]
    /\ e' = [e EXCEPT ![t] = Prev(e[t])]
    /\ UNCHANGED <<max, locker, panicked, pc, op, item, arg, n, len, ret, slice,
                   budget, history, stream>>

\* one iteration: slice[idx] = e.Value.(T); idx--; e = e.Prev()
toSliceLoop(t) ==
    /\ ~panicked
    /\ pc[t] = "toSlice_Loop"
    /\ LoopCond(t)
    /\ IF e[t] > Len(lst) \/ idx[t] + 1 > Len(arr[slice[t]])
         THEN /\ panicked' = TRUE
              /\ UNCHANGED arr
         ELSE /\ arr' = [arr EXCEPT ![slice[t]][idx[t] + 1] = lst[e[t]]]
              /\ UNCHANGED panicked
    /\ idx' = [idx EXCEPT ![t] = idx[t] - 1]
    /\ e' = [e EXCEPT ![t] = Prev(e[t])]
    /\ UNCHANGED <<lst, max, locker, pc, op, item, arg, n, len, ret, slice,
                   budget, history, stream>>

\* the loop ends: return slice
toSliceReturn(t) ==
    /\ ~panicked
    /\ pc[t] = "toSlice_Loop"
    /\ ~LoopCond(t)
    /\ pc' = [pc EXCEPT ![t] = "SliceN_Unlock"]
    /\ UNCHANGED <<lst, max, locker, panicked, op, locals, slice, arr, budget, history, stream>>

\* SliceN returns to a caller that reads the result and lets go of it.
SliceNUnlock(t) ==
    /\ Unlock(t, "SliceN_Unlock")
    /\ slice' = [slice EXCEPT ![t] = 0]
    /\ arr' = [arr EXCEPT ![slice[t]] = << >>]
    /\ UNCHANGED history

\* SliceN returns to a caller that keeps the slice it was returned.
SliceNUnlockKept(t) ==
    /\ Unlock(t, "SliceN_Unlock")
    /\ UNCHANGED <<slice, arr, history>>

\* ----------------------------------------------------------- toSlicex
\* e.Next() of the element at position at; 0 is nil.
NextElem(l, at) == IF at >= Len(l) THEN 0 ELSE at + 1
\* What a helper hands back: the slice, or no slice when it panicked.
Returned(sl) == [ok |-> TRUE, val |-> sl]
Panic == [ok |-> FALSE, val |-> << >>]

\* Mutant of First: the copy begins at the head.
FirstAtHead(k, ln) == 0
\* first := len - n
First(k, ln) == ln - k

\* The for loop of toSlicex from the state (i, ptr, item, slice) on: the
\* elements before first are skipped, the others copied to slice[ptr].
RECURSIVE toSlicexLoop(_, _, _, _, _, _, _)
toSlicexLoop(l, ln, first, i, ptr, it, sl) ==
    IF ~(i < ln) THEN Returned(sl)
    ELSE IF it = 0 THEN Panic
    ELSE IF i < first
           THEN toSlicexLoop(l, ln, first, i + 1, ptr, NextElem(l, it), sl)
    ELSE IF ptr + 1 > Len(sl) THEN Panic
    ELSE toSlicexLoop(l, ln, first, i + 1, ptr + 1, NextElem(l, it),
                      [sl EXCEPT ![ptr + 1] = l[it]])

\* toSlicex(n, len) on the list l; make panics on a negative length.
toSlicex(l, k, ln) ==
    IF k < 0 THEN Panic
    ELSE toSlicexLoop(l, ln, First(k, ln), 0, 0, Front(l), [j \in 1..k |-> Zero])

\* ------------------------------------------------------ the whole program
\* The steps of a call that has been issued, up to SliceN's return.
Body(t) ==
    \/ LenLock(t) \/ LenReturn(t) \/ LenUnlock(t)
    \/ AppendLock(t) \/ AppendPushBack(t) \/ AppendCheck(t) \/ AppendUnlock(t)
    \/ ClearLock(t) \/ ClearInit(t) \/ ClearUnlock(t)
    \/ Slice(t)
    \/ SliceNLock(t) \/ SliceNLen(t) \/ SliceNClamp(t)
    \/ toSliceMake(t) \/ toSliceLoop(t) \/ toSliceReturn(t)

Run(t) == Body(t) \/ SliceNUnlock(t)

Call(t) == CallLocking(t) \/ CallSlice(t)

Next == \E t \in Threads : Call(t) \/ Run(t)

Spec == Init /\ [][Next]_vars

\* Every issued call keeps being scheduled; callers may stop calling.
FairInit == Start(MaxFairCalls)

FairSpec == FairInit /\ [][Next]_vars /\ \A t \in Threads : WF_vars(Run(t))

\* Callers that keep the slices they are returned and write into them.
RunKept(t) == Body(t) \/ SliceNUnlockKept(t)

NextKept == \E t \in Threads : Call(t) \/ Overwrite(t) \/ RunKept(t)

SpecKept == Init /\ [][NextKept]_vars

\* ------------------------------------------------------------ StringLog
\* string(p): the bytes of p, copied.
StringOf(b) == [i \in 1..Len(b) |-> b[i]]

\* strings.TrimRight / TrimLeft(s, cutset): the bytes of the cutset are
\* dropped from that end until one is met that is not in it.
RECURSIVE TrimRight(_, _)
TrimRight(s, cutset) ==
    IF Len(s) > 0 /\ s[Len(s)] \in cutset
      THEN TrimRight(SubSeq(s, 1, Len(s) - 1), cutset)
      ELSE s
RECURSIVE TrimLeft(_, _)
TrimLeft(s, cutset) ==
    IF Len(s) > 0 /\ s[1] \in cutset
      THEN TrimLeft(SubSeq(s, 2, Len(s)), cutset)
      ELSE s
\* strings.Trim(s, cutset) trims both ends.
Trim(s, cutset) == TrimLeft(TrimRight(s, cutset), cutset)

\* The pcs of Append between its Lock and its deferred Unlock.
AppendBody == {"Append_PushBack", "Append_Check", "Append_Unlock"}
\* The goroutines inside Write whose Append has not returned yet.
Writing == {t \in Threads : pc[t] \in {"Lock"} \cup AppendBody}
\* The byte sequences of at most k bytes.
ByteSeqs(k) == UNION {[1..m -> Bytes] : m \in 0..k}

\* NewStringLog(size): Buffer is a new log of that capacity.
WriteInit == Start(MaxWrites)

\* A caller calls Write(p), and Write evaluates the argument of
\* s.Buffer.Append(strings.Trim(string(p), "\r\n")) and enters Append.
CallWrite(t) ==
    /\ ~panicked
    /\ pc[t] = "idle"
    /\ budget > 0
    /\ budget' = budget - 1
    /\ \E q \in ByteSeqs(MaxBytes - handed) :
         /\ p' = [p EXCEPT ![t] = q]
         /\ handed' = handed + Len(q)
         /\ item' = [item EXCEPT ![t] = Trim(StringOf(q), CutSet)]
    /\ op' = [op EXCEPT ![t] = "Write"]
    /\ pc' = [pc EXCEPT ![t] = "Lock"]
    /\ UNCHANGED <<lst, max, locker, panicked, arg, n, len, idx, e, ret,
                   slice, arr, history, err>>

\* Append's m.locker.Lock(), Write being the caller.
WriteAppendLock(t) ==
    /\ Lock(t, "Write", "Append_PushBack")
    /\ UNCHANGED <<item, arg, n>>

\* Mutant of ResultN: the length of what was stored.
ResultNTrimmed(q) == Len(Trim(q, CutSet))
\* len(p)
ResultN(q) == Len(q)

\* Append's deferred Unlock returns control to Write, whose return
\* statement, return len(p), nil, sets the results.
WriteReturn(t) ==
    /\ ~panicked
    /\ pc[t] = "Append_Unlock"
    /\ op[t] = "Write"
    /\ locker' = 0
    /\ item' = [item EXCEPT ![t] = Zero]
    /\ completed' = Append(completed, item[t])
    /\ n' = [n EXCEPT ![t] = ResultN(p[t])]
    /\ err' = [err EXCEPT ![t] = "nil"]
    /\ pc' = [pc EXCEPT ![t] = "Write_Done"]
    /\ UNCHANGED <<lst, max, panicked, op, arg, len, idx, e, ret, slice, arr,
                   budget, evicted, cleared, p, handed>>

\* Write returns to a caller that reads the results and lets go of them.
WriteDone(t) ==
    /\ ~panicked
    /\ pc[t] = "Write_Done"
    /\ pc' = [pc EXCEPT ![t] = "idle"]
    /\ op' = [op EXCEPT ![t] = "none"]
    /\ n' = [n EXCEPT ![t] = 0]
    /\ err' = [err EXCEPT ![t] = "none"]
    /\ p' = [p EXCEPT ![t] = << >>]
    /\ UNCHANGED <<lst, max, locker, panicked, item, arg, len, idx, e, ret,
                   slice, arr, budget, history, handed>>

\* Goroutines that write to one StringLog.
WriteNext ==
    \E t \in Threads :
        \/ CallWrite(t)
        \/ WriteAppendLock(t) \/ AppendPushBack(t) \/ AppendCheck(t)
        \/ WriteReturn(t) \/ WriteDone(t)

WriteSpec == WriteInit /\ [][WriteNext]_vars

\* ================================================================ claims
\* The array behind the slice goroutine t is building or has built.
Result(t) == arr[slice[t]]
\* The pcs between Lock and the deferred Unlock of each method.
LockedBody == AppendBody \cup
    {"Len_Return", "Len_Unlock", "Clear_Init", "Clear_Unlock", "SliceN_Len",
     "SliceN_Clamp", "toSlice_Make", "toSlice_Loop", "SliceN_Unlock"}
InBody(t) == pc[t] \in LockedBody
\* What a log of capacity m retains of the items s appended to it.
LastOf(s, m) == Suffix(s, Max(0, Min(Len(s), m)))
\* The number of elements SliceN(k) returns of a list of length l.
Want(k, l) == IF 0 <= k /\ k <= l THEN k ELSE l

\* C1: on a log of capacity C >= 1 that was never cleared, after N Appends
\* have returned, Len() returns min(N, C) and Slice() returns the last
\* min(N, C) appended items, oldest first.
C1_LastItemsRetained ==
    (max >= 1 /\ ~cleared) =>
        \A t \in Threads :
            /\ pc[t] = "Len_Unlock" => ret[t] = Min(Len(completed), max)
            /\ (pc[t] = "SliceN_Unlock" /\ op[t] = "Slice") =>
                   Result(t) = Suffix(completed, Min(Len(completed), max))

\* Slice() is about to return on a capacity-2 log that evicted an item.
C1_Witness ==
    \E t \in Threads :
        /\ pc[t] = "SliceN_Unlock" /\ op[t] = "Slice"
        /\ max = 2 /\ ~cleared /\ Len(completed) > max
        /\ Result(t) = Suffix(completed, 2)
        /\ Result(t)[1] # Result(t)[2]

\* C2: with capacity C >= 1, whenever no Append holds the lock the list has
\* between 0 and C elements.
C2_LengthWithinCapacity ==
    (max >= 1 /\ \A t \in Threads : pc[t] \notin AppendBody) =>
        (0 <= ListLen(lst) /\ ListLen(lst) <= max)

\* A full log that has evicted, one goroutine inside Clear, another waiting
\* for the mutex.
C2_Witness ==
    \E t, u \in Threads :
        /\ pc[t] = "Clear_Init" /\ pc[u] = "Lock"
        /\ max >= 1 /\ ListLen(lst) = max /\ evicted # << >>

\* C3: SliceN(n) returns the suffix of the retained sequence of length n when
\* 0 <= n <= L, and the whole sequence when n > L or n < 0; SliceN(1) right
\* after Append(X) is [X]; Slice() returns what SliceN(-1) returns; no call
\* panics.
C3_SliceNSuffix ==
    /\ ~panicked
    /\ \A t \in Threads :
        pc[t] = "SliceN_Unlock" =>
            /\ Result(t) = Suffix(lst, Want(arg[t], ListLen(lst)))
            /\ op[t] = "Slice" => (arg[t] = allElements /\ Result(t) = lst)
            /\ (arg[t] = 1 /\ max >= 1 /\ completed # << >>) =>
                   Result(t) = <<completed[Len(completed)]>>

\* SliceN(n) is about to return a proper, non-empty suffix.
C3_Witness ==
    \E t \in Threads :
        /\ pc[t] = "SliceN_Unlock" /\ op[t] = "SliceN"
        /\ 0 < arg[t] /\ arg[t] < ListLen(lst)
        /\ Len(Result(t)) = arg[t]

\* C4: once N Appends of pairwise distinct values have all returned (no
\* Clear), the log holds min(N, C) elements, the retained elements are
\* pairwise distinct appended values, exactly max(N - C, 0) values were
\* evicted, and every appended value is either retained or evicted, not both.
C4_NoLostAppend ==
    (/\ max >= 1 /\ ~cleared
     /\ \A t \in Threads : op[t] \notin {"Append", "Clear"}
     /\ IsDistinct(completed)) =>
        /\ ListLen(lst) = Min(Len(completed), max)
        /\ \A t \in Threads : pc[t] = "Len_Unlock" => ret[t] = Min(Len(completed), max)
        /\ IsDistinct(lst) /\ IsDistinct(evicted)
        /\ Range(lst) \subseteq Range(completed)
        /\ Len(evicted) = Max(Len(completed) - max, 0)
        /\ Range(lst) \cap Range(evicted) = {}
        /\ Range(lst) \cup Range(evicted) = Range(completed)

\* All Appends of distinct values have returned, one was evicted, and Len()
\* is about to return the capacity.
C4_Witness ==
    \E t \in Threads :
        /\ pc[t] = "Len_Unlock" /\ ret[t] = max
        /\ max >= 1 /\ ~cleared /\ IsDistinct(completed)
        /\ Len(completed) > max
        /\ \A u \in Threads : op[u] \notin {"Append", "Clear"}

\* C5: a goroutine inside the body of Len, Append, Clear or SliceN holds the
\* mutex, so at most one is inside at a time; Slice holds nothing before it
\* enters SliceN.
C5_MutualExclusion ==
    /\ \A t \in Threads : InBody(t) => locker = t
    /\ Cardinality({t \in Threads : InBody(t)}) <= 1
    /\ \A t \in Threads : pc[t] = "Slice" => locker # t

\* One goroutine is walking the list while another waits for the mutex.
C5_Witness ==
    \E t, u \in Threads :
        /\ pc[t] = "toSlice_Loop" /\ locker = t /\ idx[t] < n[t] - 1
        /\ pc[u] = "Lock"

\* The items of every Append that has returned since the last Clear, then
\* the item of the Append that is inside its body, if there is one.
Known ==
    LET inside == {t \in Threads : pc[t] \in AppendBody}
    IN  IF inside = {} THEN completed
        ELSE Append(completed, item[CHOOSE t \in inside : TRUE])
\* Where value x stands in sequence s.
Pos(s, x) == CHOOSE i \in 1..Len(s) : s[i] = x

\* C6: when the appended values are pairwise distinct, an item whose Append
\* returned earlier stands before a later one in every Slice()/SliceN()
\* result that holds both, and an item is evicted only after every item
\* whose Append returned before its own.
C6_CompletionOrder ==
    IsDistinct(Known) =>
        /\ \A t \in Threads :
            pc[t] = "SliceN_Unlock" =>
                \A i, j \in 1..Len(Result(t)) :
                    \A a, b \in 1..Len(completed) :
                        (/\ completed[a] = Result(t)[i]
                         /\ completed[b] = Result(t)[j]
                         /\ a < b) => i < j
        /\ \A a, b \in 1..Len(completed) :
            (a < b /\ completed[b] \in Range(evicted)) =>
                /\ completed[a] \notin Range(lst)
                /\ completed[a] \in Range(evicted)
                /\ Pos(evicted, completed[a]) < Pos(evicted, completed[b])
        /\ \A t \in Threads :
            (pc[t] \in AppendBody /\ item[t] \in Range(evicted)) =>
                Range(lst) \cap Range(completed) = {}

\* A result that holds the items of two Appends, the earlier one first.
C6_Witness ==
    \E t \in Threads :
        /\ pc[t] = "SliceN_Unlock"
        /\ IsDistinct(Known) /\ Len(completed) >= 2
        /\ Len(Result(t)) = 2
        /\ Result(t)[1] = completed[Len(completed) - 1]
        /\ Result(t)[2] = completed[Len(completed)]

\* C7: under fair scheduling of the issued calls, every call returns with the
\* mutex released, Slice included; nothing is left holding the mutex.
C7_EveryCallReturns ==
    /\ \A t \in Threads : (pc[t] # "idle") ~> (pc[t] = "idle" /\ locker # t)
    /\ []((\A t \in Threads : pc[t] = "idle") => locker = 0)

\* Slice has entered SliceN and holds the mutex while another call waits.
C7_Witness ==
    \E t, u \in Threads :
        /\ op[t] = "Slice" /\ pc[t] = "toSlice_Loop" /\ locker = t
        /\ pc[u] = "Lock"

\* C8: once Clear has returned and until an Append returns, Len() returns 0
\* and Slice() returns the empty sequence; the steps of Clear leave the
\* capacity as it was.
C8_ClearEmpties ==
    /\ [](\A t \in Threads :
            /\ pc[t] = "Clear_Unlock" => lst = << >>
            /\ (cleared /\ completed = << >>) =>
                 /\ pc[t] = "Len_Unlock" => ret[t] = 0
                 /\ (pc[t] = "SliceN_Unlock" /\ op[t] = "Slice") => Result(t) = << >>)
    /\ [][\A t \in Threads :
            (ClearLock(t) \/ ClearInit(t) \/ ClearUnlock(t)) => max' = max]_vars

\* Clear is about to return, having emptied a log that held items.
C8_Witness ==
    \E t \in Threads :
        /\ pc[t] = "Clear_Unlock" /\ lst = << >>
        /\ completed # << >> /\ max >= 1

\* C9: no step of a Len, Slice or SliceN call, from its entry to its return,
\* changes the retained sequence or the capacity.
C9_ObserversChangeNothing ==
    [][\A t \in Threads :
         (/\ op[t] \in {"Len", "Slice", "SliceN"} \/ op'[t] \in {"Len", "Slice", "SliceN"}
          /\ Call(t) \/ Run(t)) =>
             (lst' = lst /\ max' = max)]_vars

\* SliceN is about to return a non-empty result.
C9_Witness ==
    \E t \in Threads :
        /\ pc[t] = "SliceN_Unlock" /\ op[t] = "SliceN"
        /\ Result(t) # << >> /\ Result(t) = lst

\* C10: a slice that was returned changes only when its holder writes into
\* it, whatever the log does afterwards; and writing into it changes neither
\* the log nor what later Len/Slice/SliceN calls return.
C10_ResultIsACopy ==
    /\ [][\A t \in Threads :
            (/\ pc[t] = "idle" /\ slice[t] # 0
             /\ ~Overwrite(t) /\ ~Call(t)) =>
                (slice'[t] = slice[t] /\ arr'[slice[t]] = arr[slice[t]])]_vars
    /\ [][\A t \in Threads : Overwrite(t) => (lst' = lst /\ max' = max)]_vars
    /\ [](\A t \in Threads :
            /\ pc[t] = "Len_Unlock" => ret[t] = Len(LastOf(completed, max))
            /\ pc[t] = "SliceN_Unlock" =>
                 Result(t) = Suffix(LastOf(completed, max),
                                    Want(arg[t], Len(LastOf(completed, max)))))

\* A caller holds a slice it has written into, and a later call is about to
\* return the log's content.
C10_Witness ==
    \E t, u \in Threads :
        /\ pc[t] = "idle" /\ slice[t] # 0
        /\ \E i \in 1..Len(arr[slice[t]]) : arr[slice[t]][i] \notin Range(completed)
        /\ pc[u] = "SliceN_Unlock" /\ slice[u] # slice[t]
        /\ Result(u) = lst /\ lst # << >>

\* C11: a log constructed with capacity <= 0 is always empty: outside the
\* step of Append between PushBack and the eviction the list holds nothing,
\* Len() returns 0, Slice() and SliceN() return the empty sequence, and no
\* operation panics.
C11_NonPositiveCapacityEmpty ==
    max <= 0 =>
        /\ ~panicked
        /\ (\A t \in Threads : pc[t] # "Append_Check") => lst = << >>
        /\ \A t \in Threads :
            /\ pc[t] = "Len_Unlock" => ret[t] = 0
            /\ pc[t] = "SliceN_Unlock" => Result(t) = << >>

\* Slice() is about to return on a log of negative capacity after two
\* Appends have returned, each having evicted its own item.
C11_Witness ==
    \E t \in Threads :
        /\ max < 0 /\ Len(completed) >= 2 /\ Len(evicted) >= 2
        /\ pc[t] = "SliceN_Unlock" /\ op[t] = "Slice"
        /\ Result(t) = << >>

\* C12: for every byte sequence p, Write(p) appends one element equal to p
\* with the maximal trailing run of CR/LF removed and every other byte, leading
\* CR/LF included, kept.  Stated where Append has just linked the element.
C12_OnlyTrailingStripped ==
    \A t \in Threads :
        (op[t] = "Write" /\ pc[t] = "Append_Check") =>
            (lst # << >> /\ lst[Back(lst)] = TrimRight(p[t], CutSet))

\* C13: every Write(p) makes exactly one Append, also for an empty p or one of
\* CR/LF only, and never more; it returns n = len(p), untrimmed, and a nil
\* error; the elements stand in the log in the order of the writes.
C13_OneAppendPerWrite ==
    /\ [](/\ ~panicked
          /\ Len(completed) + Cardinality(Writing) = MaxWrites - budget
          /\ (\A t \in Threads : pc[t] \notin AppendBody) =>
                 lst = LastOf(completed, max)
          /\ \A t \in Threads :
              pc[t] = "Write_Done" => (n[t] = Len(p[t]) /\ err[t] = "nil"))
    /\ [][\A t \in Threads :
            WriteReturn(t) => completed' = Append(completed, Trim(p[t], CutSet))]_vars

\* A second Write is about to return 2 for a letter and a line terminator;
\* the log holds the elements of both writes, the earlier one first.
C13_Witness ==
    \E t \in Threads :
        /\ pc[t] = "Write_Done" /\ n[t] = 2 /\ p[t][1] = Letter /\ p[t][2] \in CutSet
        /\ Len(completed) = 2 /\ budget = 0
        /\ lst = << << >>, <<Letter>> >>

\* C14: an Append on a log of capacity C >= 1 that holds L <= C elements puts
\* the item at the tail; when L < C nothing is removed and the length becomes
\* L + 1; when L = C exactly the head is removed and the length stays C; the
\* other elements keep their places relative to each other.
C14_AppendEvictsHeadOnly ==
    [][\A t \in Threads :
         max >= 1 =>
            /\ AppendPushBack(t) =>
                 /\ Len(lst) <= max
                 /\ lst' = lst \o <<item[t]>>
            /\ AppendCheck(t) =>
                 /\ lst # << >> /\ lst[Len(lst)] = item[t]
                 /\ Len(lst) - 1 <= max
                 /\ IF Len(lst) - 1 < max
                      THEN lst' = lst /\ evicted' = evicted
                      ELSE /\ lst' = Tail(lst)
                           /\ Len(lst') = max
                           /\ evicted' = Append(evicted, Head(lst))]_vars

\* Append is about to return on a full log of capacity 2, having removed the
\* head and kept the other element before the new item.
C14_Witness ==
    \E t \in Threads :
        /\ pc[t] = "Append_Unlock" /\ max = 2
        /\ evicted # << >> /\ Len(lst) = 2
        /\ lst[2] = item[t] /\ lst[1] # lst[2]
        /\ completed # << >> /\ lst[1] = completed[Len(completed)]
        /\ evicted[Len(evicted)] # lst[1]

\* The pcs of SliceN between its Lock and its deferred Unlock.
SliceNBody == {"SliceN_Len", "SliceN_Clamp", "toSlice_Make", "toSlice_Loop",
               "SliceN_Unlock"}

\* C15: a Slice()/SliceN() result returned while other goroutines run Append
\* and Clear is a snapshot taken at one point between complete operations:
\* from the moment SliceN reads the length until it returns no other call is
\* inside its body and the list does not change; the list is then what the
\* returned Appends since the last Clear left (never the C+1 elements inside
\* Append), and the result is its suffix: at most C elements (C >= 1), which
\* are the latest returned Appends, none of them evicted or cleared.
C15_ConsistentSnapshot ==
    /\ [](max >= 1 =>
            \A t \in Threads :
                pc[t] \in SliceNBody =>
                    /\ \A u \in Threads \ {t} : ~InBody(u)
                    /\ ListLen(lst) <= max
                    /\ lst = LastOf(completed, max)
                    /\ pc[t] = "SliceN_Unlock" =>
                         /\ Len(Result(t)) <= max
                         /\ Len(Result(t)) <= Len(completed)
                         /\ Result(t) = Suffix(completed, Len(Result(t)))
                         /\ Len(Result(t)) + Len(evicted) <= Len(completed))
    /\ [][\A t \in Threads :
            (pc[t] \in SliceNBody /\ pc'[t] \in SliceNBody) =>
                (lst' = lst /\ history' = history)]_vars

\* SliceN is about to return the one element of a capacity-1 log that has
\* evicted, while another call waits for the mutex.
C15_Witness ==
    \E t, u \in Threads :
        /\ pc[t] = "SliceN_Unlock" /\ pc[u] = "Lock"
        /\ max = 1 /\ evicted # << >>
        /\ Result(t) = <<completed[Len(completed)]>>
        /\ evicted[Len(evicted)] # Result(t)[1]

\* The elements the walk of goroutine t has copied so far, as positions.
Visited(t) == {i \in 1..Len(lst) : i > e[t]}

\* C16: the walk of toSlice, called with the clamped count k, 0 <= k <= L,
\* starts at the tail (which is not the head when L >= 2) and copies exactly
\* k elements, the k nearest the tail, going backward; none of the L - k
\* older elements is read.
C16_WalkFromTail ==
    /\ [](\A t \in Threads :
            (pc[t] = "toSlice_Loop" /\ ~panicked) =>
                /\ 0 <= n[t] /\ n[t] <= Len(lst)
                /\ Cardinality(Visited(t)) = n[t] - 1 - idx[t]
                /\ Visited(t) \subseteq (Len(lst) - n[t] + 1)..Len(lst)
                /\ ~LoopCond(t) => Visited(t) = (Len(lst) - n[t] + 1)..Len(lst))
    /\ [][\A t \in Threads :
            /\ toSliceMake(t) =>
                 /\ 0 <= n[t] /\ n[t] <= Len(lst)
                 /\ e'[t] = Len(lst)
                 /\ Len(lst) >= 2 => e'[t] # Front(lst)
            /\ toSliceLoop(t) =>
                 /\ Len(lst) - n[t] < e[t] /\ e[t] <= Len(lst)
                 /\ e[t] \notin Visited(t)
                 /\ arr'[slice[t]][idx[t] + 1] = lst[e[t]]
                 /\ e'[t] = e[t] - 1
            /\ toSliceReturn(t) =>
                 Cardinality(Visited(t)) = n[t]]_vars

\* The walk for SliceN(1) on a list of two elements has ended: it copied the
\* tail and stands at the head, which it did not read.
C16_Witness ==
    \E t \in Threads :
        /\ pc[t] = "toSlice_Loop" /\ ~LoopCond(t)
        /\ n[t] = 1 /\ Len(lst) = 2 /\ lst[1] # lst[2]
        /\ e[t] = 1 /\ Visited(t) = {2}
        /\ Result(t) = <<lst[2]>>

\* C17: Clear resets the contents, not the bound.  With capacity C >= 1,
\* Slice() returns the last min(k, C) items of the k Appends that returned
\* since the most recent Clear returned (since New if there was none), oldest
\* first; no step of Clear changes the capacity; and an item enters the list
\* only as the item of the Append that is running, so a cleared item does not
\* come back.
C17_ClearKeepsBound ==
    /\ [](max >= 1 =>
            \A t \in Threads :
                (pc[t] = "SliceN_Unlock" /\ op[t] = "Slice") =>
                    /\ Len(Result(t)) = Min(Len(completed), max)
                    /\ Result(t) = Suffix(completed, Len(Result(t))))
    /\ [][\A t \in Threads :
            /\ (pc[t] \in {"Clear_Init", "Clear_Unlock"} \/ pc'[t] \in {"Clear_Init", "Clear_Unlock"})
                 => max' = max
            /\ (pc[t] = "Clear_Init" /\ pc'[t] = "Clear_Unlock") => lst' = << >>]_vars
    /\ [][Len(lst') > Len(lst) =>
            \E t \in Threads :
                pc[t] = "Append_PushBack" /\ lst' = lst \o <<item[t]>>]_vars

\* Slice() is about to return the one item a capacity-1 log retains of the two
\* appended since a Clear returned.
C17_Witness ==
    \E t \in Threads :
        /\ pc[t] = "SliceN_Unlock" /\ op[t] = "Slice"
        /\ cleared /\ max = 1
        /\ Len(completed) = 2 /\ completed[1] # completed[2]
        /\ evicted = <<completed[1]>>
        /\ Result(t) = <<completed[2]>>

\* C18: for every list and every n with 0 <= n <= len, len being the length
\* of the list, the forward-scanning toSlicex(n, len) returns the sequence
\* the backward-walking toSlice(n) returns (and neither panics).
C18_HelpersAgree ==
    \A t \in Threads :
        pc[t] = "SliceN_Unlock" =>
            /\ len[t] = ListLen(lst) /\ 0 <= n[t] /\ n[t] <= len[t]
            /\ toSlicex(lst, n[t], len[t]) = Returned(Result(t))

\* toSlice(1) has returned the tail of a list of two different elements, and
\* toSlicex(1, 2) returns the same, having skipped the head.
C18_Witness ==
    \E t \in Threads :
        /\ pc[t] = "SliceN_Unlock"
        /\ n[t] = 1 /\ len[t] = 2 /\ lst[1] # lst[2]
        /\ Result(t) = <<lst[2]>>
        /\ toSlicex(lst, 1, 2) = Returned(<<lst[2]>>)

====
